---- MODULE Spec2Model ----
(***************************************************************************)
(* Model of emlearn/trees.py: flattening of source trees into decision-    *)
(* node and leaf arrays (flatten_tree), merging into one forest            *)
(* (flatten_forest), leaf de-duplication (remove_duplicate_leaves), the    *)
(* reference validator, and the C code generation entry points.            *)
(*                                                                         *)
(* Python lists are 0-based; they are modelled as TLA+ sequences, so the   *)
(* element with Python index i is seq[i+1].  Node references keep their    *)
(* Python values (0-based index, or -(leaf index)-1 for a leaf).           *)
(* A decision node is the 4-tuple <<feature, threshold, left, right>>,     *)
(* so Python's node[2] / node[3] are node[3] / node[4] here.               *)
(* Thresholds are carried in units of 1/2 (the value 1 stands for 0.5).    *)
(***************************************************************************)
EXTENDS Integers, Sequences, FiniteSets, TLC

\* ---------------------------------------------------------------- bounds
MaxDecision == 2      \* decision nodes of one source tree
MaxTrees == 2         \* trees handed to flatten_forest
MaxTotal == 3         \* decision nodes of all source trees of one forest
MaxLeaves == 3        \* leaves of a forest handed to the serializer
MaxPayload == 2       \* largest leaf payload handed to the serializer
MaxVoteTrees == 3     \* trees of a forest whose emitted dispatch function is run
MaxClasses == 3       \* classes of that forest
MaxBuildTrees == 2    \* trees of an estimator a Wrapper is built from
MaxBuildTotal == 2    \* decision nodes of all trees of that estimator
MaxLeafIdx == 20      \* largest leaf index encoded and decoded
ProbScale == 4        \* a probability is carried as k/ProbScale, k in 0..ProbScale
MaxProbs == 2         \* entries of the vector handed to quantize_probabilities
MaxValNodes == 2      \* decision nodes of a forest handed to the validator
MaxValLeaves == 2     \* leaves of that forest
MaxFlat == 2          \* nodes of a node list handed to generate_c_nodes

\* ------------------------------------------------------- source trees
\* The tree learner appends a node to the parallel arrays when it creates
\* it, below a node that exists: a node's id is larger than its parent's,
\* in whatever order the learner expands the leaves (depth first, best
\* first).  All full binary trees over the node ids `ids` with that
\* numbering, as a function id -> <<children_left[id], children_right[id]>>;
\* -1 = no child.  The root is the least id.
Least(S) == CHOOSE x \in S : \A y \in S : x <= y

RECURSIVE Labelled(_)
Labelled(ids) ==
  LET root == Least(ids)
      rest == ids \ {root}
      halves == { L \in SUBSET rest : Cardinality(L) % 2 = 1 }
  IN IF rest = {} THEN { (root :> <<-1, -1>>) }
     ELSE UNION { { (root :> <<Least(L), Least(rest \ L)>>) @@ a @@ b :
                      a \in Labelled(L), b \in Labelled(rest \ L) } :
                  L \in halves }

\* value[i][0] of a leaf: a per-class count vector (classifier) or a
\* one-element vector (regressor); a decision node carries the vector of
\* its whole subtree, which flatten_tree never reads
ValueVecs(leaf) == IF leaf = "argmax" THEN { <<1, 0>>, <<0, 1>> } ELSE { <<0>>, <<1>> }
InnerValue(leaf) == IF leaf = "argmax" THEN <<1, 1>> ELSE <<0>>

\* The parallel arrays of one source tree with d decision nodes: node 0 is
\* the root, feature/threshold are -2 on leaves as the tree learner writes
\* them, and distinct per decision node.
TreesOfSize(d, leaf) ==
  LET n == 2 * d + 1
      ids == 0 .. (n - 1)
  IN UNION { { [ children_left  |-> [i \in 1..n |-> sh[i-1][1]],
                 children_right |-> [i \in 1..n |-> sh[i-1][2]],
                 feature   |-> [i \in 1..n |-> IF sh[i-1][1] = -1 THEN -2 ELSE i - 1],
                 threshold |-> [i \in 1..n |-> IF sh[i-1][1] = -1 THEN -4 ELSE 2 * (i - 1) + 1],
                 value     |-> [i \in 1..n |-> IF sh[i-1][1] = -1 THEN val[i] ELSE InnerValue(leaf)],
                 node_count |-> n ] :
               val \in [{i \in 1..n : sh[i-1][1] = -1} -> ValueVecs(leaf)] } :
             sh \in Labelled(ids) }

\* the source trees by leaf mode and number of decision nodes
SourceTrees ==
  [ l \in { "argmax", "value" } |-> [ d \in 0..MaxDecision |-> TreesOfSize(d, l) ] ]

\* ------------------------------------------------------------ helpers
Range(s) == { s[i] : i \in 1..Len(s) }

\* numpy.argmax: index of the first maximal entry
ArgMax(vec) ==
  (CHOOSE i \in 1..Len(vec) :
      /\ \A j \in 1..Len(vec) : vec[j] <= vec[i]
      /\ \A j \in 1..(i-1) : vec[j] < vec[i]) - 1

\* ------------------------------------------------ leaf-reference encoding
\* add_leaf, line 64: encoded = -leaf_idx-1
add_leaf_encoded(leaf_idx) == -leaf_idx - 1

\* remove_duplicate_leaves, lines 229 and 239: -old_idx-1 and -new_idx-1
dedup_encoded(idx) == -idx - 1

\* assert_node_references_valid, lines 162-163: (-n[2])-1
validator_leaf_idx(ref) == (-ref) - 1

\* c_node, line 407, without the -1
c_node_leaf_idx_NoOffset(idx) == -idx

\* c_node, line 407: leaf_idx = -idx-1
c_node_leaf_idx(idx) == -idx - 1

\* ------------------------------------------- assert_node_references_valid
\* TRUE iff no assertion of the validator fails.
NodeReferencesValid(nodes, leaves, roots) ==
  LET left_children  == { n[3] : n \in { m \in Range(nodes) : m[3] >= 0 } }
      right_children == { n[4] : n \in { m \in Range(nodes) : m[4] >= 0 } }
      node_idxs == 0 .. (Len(nodes) - 1)
      invalid_children_left  == left_children \ node_idxs
      invalid_children_right == right_children \ node_idxs
      extranous_nodes == node_idxs \ (left_children \cup right_children \cup Range(roots))
      left_leaves  == { validator_leaf_idx(n[3]) : n \in { m \in Range(nodes) : m[3] < 0 } }
      right_leaves == { validator_leaf_idx(n[4]) : n \in { m \in Range(nodes) : m[4] < 0 } }
      leaf_idxs == 0 .. (Len(leaves) - 1)
      invalid_leaves_left  == left_leaves \ leaf_idxs
      invalid_leaves_right == right_leaves \ leaf_idxs
      extranous_leaves == leaf_idxs \ (left_leaves \cup right_leaves)
  IN /\ invalid_children_left = {}
     /\ invalid_children_right = {}
     /\ extranous_nodes = {}
     /\ invalid_leaves_left = {}
     /\ invalid_leaves_left = {}     \* line 169 asserts the left set a second time
     /\ extranous_leaves = {}

assert_forest_valid(forest) == NodeReferencesValid(forest.nodes, forest.leaves, forest.roots)

\* ------------------------------------------------------------ flatten_tree
\* add_leaf: the payload appended for source node idx
LeafPayload(tree, idx, leaf) ==
  IF leaf = "argmax" THEN ArgMax(tree.value[idx + 1]) ELSE tree.value[idx + 1][1]

\* process_child: <<reference, leaf_nodes after the call>>
process_child(tree, idx, leaf_nodes, leaf) ==
  IF tree.children_left[idx + 1] = -1 /\ tree.children_right[idx + 1] = -1
  THEN << add_leaf_encoded(Len(leaf_nodes)), Append(leaf_nodes, LeafPayload(tree, idx, leaf)) >>
  ELSE << idx, leaf_nodes >>

\* the loop of lines 91-104 from node_no on; mapping is decision_node_mapping
RECURSIVE FlattenLoop(_, _, _, _, _, _)
FlattenLoop(tree, leaf, node_no, decision_nodes, leaf_nodes, mapping) ==
  IF node_no >= tree.node_count
  THEN [ decision_nodes |-> decision_nodes, leaf_nodes |-> leaf_nodes, mapping |-> mapping ]
  ELSE LET left  == tree.children_left[node_no + 1]
           right == tree.children_right[node_no + 1]
       IN IF left = -1 /\ right = -1
          THEN FlattenLoop(tree, leaf, node_no + 1, decision_nodes, leaf_nodes, mapping)
          ELSE LET l == process_child(tree, left, leaf_nodes, leaf)
                   r == process_child(tree, right, l[2], leaf)
                   node == << tree.feature[node_no + 1], tree.threshold[node_no + 1], l[1], r[1] >>
               IN FlattenLoop(tree, leaf, node_no + 1, Append(decision_nodes, node), r[2],
                              mapping @@ (node_no :> Len(decision_nodes)))

\* lines 107-111 writing the left child to node[3] and the right to node[2]
RemapChildren_Swapped(decision_nodes, mapping) ==
  [ i \in 1..Len(decision_nodes) |->
      LET n == decision_nodes[i]
      IN << n[1], n[2],
            IF n[4] >= 0 THEN mapping[n[4]] ELSE n[4],
            IF n[3] >= 0 THEN mapping[n[3]] ELSE n[3] >> ]

\* lines 107-111: child decision references follow decision_node_mapping
RemapChildren(decision_nodes, mapping) ==
  [ i \in 1..Len(decision_nodes) |->
      LET n == decision_nodes[i]
      IN << n[1], n[2],
            IF n[3] >= 0 THEN mapping[n[3]] ELSE n[3],
            IF n[4] >= 0 THEN mapping[n[4]] ELSE n[4] >> ]

\* flatten_tree without the assertion of line 115 and the call of line 119
flatten_tree_Unchecked(tree, leaf) ==
  LET pass == FlattenLoop(tree, leaf, 0, <<>>, <<>>, <<>>)
  IN [ decision_nodes |-> RemapChildren(pass.decision_nodes, pass.mapping),
       leaf_nodes |-> pass.leaf_nodes,
       err |-> "none" ]

\* flatten_tree: err is "none" when it returns, else the assertion that fails
flatten_tree(tree, leaf) ==
  LET pass == FlattenLoop(tree, leaf, 0, <<>>, <<>>, <<>>)
      decision_nodes == RemapChildren(pass.decision_nodes, pass.mapping)
      leaf_nodes == pass.leaf_nodes
      total_nodes == Len(decision_nodes) + Len(leaf_nodes)
  IN [ decision_nodes |-> decision_nodes,
       leaf_nodes |-> leaf_nodes,
       err |-> IF total_nodes # tree.node_count THEN "total_nodes"
               ELSE IF ~NodeReferencesValid(decision_nodes, leaf_nodes, <<0>>) THEN "references"
               ELSE "none" ]

\* ---------------------------------------------------------- flatten_forest
\* lines 193-201 with the leaf offset added instead of subtracted
OffsetNodes_LeafAdd(decision_nodes, decision_nodes_offset, leaf_nodes_offset) ==
  [ i \in 1..Len(decision_nodes) |->
      LET n == decision_nodes[i]
      IN << n[1], n[2],
            IF n[3] >= 0 THEN n[3] + decision_nodes_offset ELSE n[3] + leaf_nodes_offset,
            IF n[4] >= 0 THEN n[4] + decision_nodes_offset ELSE n[4] + leaf_nodes_offset >> ]

\* lines 193-201: the offsets applied to one tree's decision nodes
OffsetNodes(decision_nodes, decision_nodes_offset, leaf_nodes_offset) ==
  [ i \in 1..Len(decision_nodes) |->
      LET n == decision_nodes[i]
      IN << n[1], n[2],
            IF n[3] >= 0 THEN n[3] + decision_nodes_offset ELSE n[3] - leaf_nodes_offset,
            IF n[4] >= 0 THEN n[4] + decision_nodes_offset ELSE n[4] - leaf_nodes_offset >> ]

\* ------------------------------------------------- remove_duplicate_leaves
\* list.index that answers 0 whatever the element
IndexOf_Zero(s, x) == 0

\* list.index: Python index of the first element equal to x
IndexOf(s, x) == (CHOOSE i \in 1..Len(s) : s[i] = x /\ \A j \in 1..(i-1) : s[j] # x) - 1

RECURSIVE DedupLoop(_, _, _, _)

\* lines 228-240 finding a duplicate only while none has been dropped yet
DedupLoop_OnePerCall(leaves, old_idx, unique_leaves, remap_leaves) ==
  IF old_idx >= Len(leaves)
  THEN [ unique_leaves |-> unique_leaves, remap_leaves |-> remap_leaves ]
  ELSE LET node == leaves[old_idx + 1]
           old_encoded == dedup_encoded(old_idx)
           found == node \in Range(unique_leaves) /\ Len(unique_leaves) = old_idx
           new_idx == IF found THEN IndexOf(unique_leaves, node) ELSE Len(unique_leaves)
           new_encoded == dedup_encoded(new_idx)
       IN DedupLoop(leaves, old_idx + 1,
                    IF found THEN unique_leaves ELSE Append(unique_leaves, node),
                    remap_leaves @@ (old_encoded :> new_encoded))

\* lines 228-240 from old_idx on: unique_leaves and remap_leaves
DedupLoop(leaves, old_idx, unique_leaves, remap_leaves) ==
  IF old_idx >= Len(leaves)
  THEN [ unique_leaves |-> unique_leaves, remap_leaves |-> remap_leaves ]
  ELSE LET node == leaves[old_idx + 1]
           old_encoded == dedup_encoded(old_idx)
           found == node \in Range(unique_leaves)
           new_idx == IF found THEN IndexOf(unique_leaves, node) ELSE Len(unique_leaves)
           new_encoded == dedup_encoded(new_idx)
       IN DedupLoop(leaves, old_idx + 1,
                    IF found THEN unique_leaves ELSE Append(unique_leaves, node),
                    remap_leaves @@ (old_encoded :> new_encoded))

\* dict.get(key, default)
DictGet(d, key, default) == IF key \in DOMAIN d THEN d[key] ELSE default

\* lines 246-248 with the right child left as it was
RemapLeafRefs_LeftOnly(nodes, remap_leaves) ==
  [ i \in 1..Len(nodes) |->
      LET n == nodes[i]
      IN << n[1], n[2], DictGet(remap_leaves, n[3], n[3]), n[4] >> ]

\* lines 246-248
RemapLeafRefs(nodes, remap_leaves) ==
  [ i \in 1..Len(nodes) |->
      LET n == nodes[i]
      IN << n[1], n[2], DictGet(remap_leaves, n[3], n[3]), DictGet(remap_leaves, n[4], n[4]) >> ]

\* remove_duplicate_leaves: err is "none" when it returns.  The loop of
\* lines 246-248 assigns n[2] and n[3] of the node lists of the forest it
\* was handed, and line 250 puts that same `nodes` list into the result:
\* input is what the caller's forest holds once the call is over (its own
\* roots and leaves, and the node list the call has written to).
remove_duplicate_leaves(forest) ==
  LET loop == DedupLoop(forest.leaves, 0, <<>>, <<>>)
      f == [ nodes |-> RemapLeafRefs(forest.nodes, loop.remap_leaves),
             roots |-> forest.roots,
             leaves |-> loop.unique_leaves ]
  IN [ forest |-> f,
       input |-> IF Len(forest.nodes) = 0 THEN forest
                 ELSE [ nodes |-> f.nodes, roots |-> forest.roots, leaves |-> forest.leaves ],
       err |-> IF Len(forest.nodes) = 0 THEN "ZeroDivisionError"   \* line 243
               ELSE IF ~assert_forest_valid(f) THEN "references"
               ELSE "none" ]

\* ------------------------------------------------------------ a forest family
\* The forest that flatten_forest and remove_duplicate_leaves give for trees
\* that are chains of c decision nodes (the last tree holds what is left of
\* n): each node's left child is a leaf, its right child the next node of
\* its tree, or a leaf at the end of the chain; the leaves are numbered in
\* the order flatten_tree meets them and the j-th of them carries the
\* payload leaves[j % len(leaves)].
ChainLeafRef(j, m) == -((j % m) + 1)

ChainNode(i, n, c, m) ==
  LET ends == (i % c = c - 1) \/ (i = n - 1)
      left_no == i + (i \div c)
  IN << 0, 1, ChainLeafRef(left_no, m),
        IF ends THEN ChainLeafRef(left_no + 1, m) ELSE i + 1 >>

ChainForest(n, c, leaves) ==
  [ nodes |-> [ i \in 1..n |-> ChainNode(i - 1, n, c, Len(leaves)) ],
    roots |-> [ k \in 1..((n + c - 1) \div c) |-> (k - 1) * c ],
    leaves |-> leaves ]

\* no forest; a call that returned nothing and raised nothing; no exception
NoForest == [ nodes |-> <<>>, roots |-> <<>>, leaves |-> <<>> ]
Nothing == [ raised |-> "none", value |-> <<>> ]
NoError == [ type |-> "none", what |-> "", n_nodes |-> 0, max_nodes |-> 0 ]

\* ------------------------------------------------------ leaves_to_bytelist
RECURSIVE Pow2(_)
Pow2(e) == IF e = 0 THEN 1 ELSE 2 * Pow2(e - 1)

RECURSIVE Log2Floor(_)
Log2Floor(v) == IF v < 2 THEN 0 ELSE 1 + Log2Floor(v \div 2)

\* ---------------------------------------------------- quantize_probabilities
\* line 26
quantize_steps(bits) == Pow2(bits) - 1

\* line 28, numpy.arange(0, steps): the edges 0, 1, .., steps-1
quantize_bins(bits) == [ k \in 1..quantize_steps(bits) |-> k - 1 ]

\* numpy.digitize(x, bins) for increasing bins: the i with
\* bins[i-1] <= x < bins[i], which is the number of edges <= x; x is k/ProbScale
Digitize(x, bins) == Cardinality({ k \in 1..Len(bins) : bins[k] * ProbScale <= x })

\* the assertions of lines 24-25
quantize_probabilities_raised(p, bits) ==
  IF bits <= 8 /\ bits >= 1 THEN "none" ELSE "AssertionError"

\* lines 28-31; astype(numpy.uint8) keeps the low 8 bits
quantize_probabilities(p, bits) ==
  [ i \in 1..Len(p) |-> Digitize(p[i], quantize_bins(bits)) % 256 ]

\* numpy astype(float32) of a whole number 0 <= v < 2^24: the IEEE-754
\* single-precision bit pattern (sign 0, biased exponent, 23-bit fraction)
Float32Bits(v) ==
  IF v = 0 THEN 0
  ELSE LET e == Log2Floor(v)
       IN (127 + e) * Pow2(23) + (v - Pow2(e)) * Pow2(23 - e)

\* ndarray.tobytes() of one float32 on the little-endian build
Float32Bytes(v) ==
  LET b == Float32Bits(v)
  IN << b % 256, (b \div 256) % 256, (b \div 65536) % 256, b \div 16777216 >>

\* ceil(leaf_bits / 8), line 367
LeafBytes(leaf_bits) == (leaf_bits + 7) \div 8

\* the else branch of lines 371-373 taken for no width
LeafBitsRejected_Never(leaf_bits) == FALSE

\* lines 360-373: the widths that reach the else branch
LeafBitsRejected(leaf_bits) == leaf_bits # 0 /\ leaf_bits # 32

\* Each function that can raise is given by two operators: <name>_raised,
\* the exception it ends with ("none" when it returns), and <name>, the
\* value it returns when it does.

\* leaves_to_bytelist.  The assertion of line 369 compares the length of
\* tobytes() of a float32 array with 4 * len(leaves), which is that length
\* by construction of `out` below, so only line 373 raises.
leaves_to_bytelist_raised(leaves, leaf_bits) ==
  IF LeafBitsRejected(leaf_bits) THEN "ValueError" ELSE "none"

leaves_to_bytelist(leaves, leaf_bits) ==
  IF leaf_bits = 0
  THEN leaves
  ELSE [ k \in 1..(LeafBytes(leaf_bits) * Len(leaves)) |->
           Float32Bytes(leaves[((k - 1) \div 4) + 1])[((k - 1) % 4) + 1] ]

\* --------------------------------------------------------- generate_c_nodes
child_value_max == 32768      \* 2**15, line 327
child_value_min == -32768     \* -2**15, line 328

assert_valid_child(value) == value >= child_value_min /\ value <= child_value_max

\* generate_c_nodes: the assertion of make_node fails for some node
generate_c_nodes_raised(flat) ==
  IF \A i \in 1..Len(flat) : assert_valid_child(flat[i][3]) /\ assert_valid_child(flat[i][4])
  THEN "none" ELSE "AssertionError"

\* the node table: one record {feature, value, left, right} per node
generate_c_nodes(flat) == flat

\* ------------------------------------------------------ generate_c_loadable
generate_c_loadable_raised(forest, leaf_bits) ==
  IF generate_c_nodes_raised(forest.nodes) # "none"
  THEN generate_c_nodes_raised(forest.nodes)
  ELSE leaves_to_bytelist_raised(forest.leaves, leaf_bits)

\* the text is carried as the values its sections are formatted from
generate_c_loadable(forest, leaf_bits) ==
  [ nodes_length |-> Len(forest.nodes),
    nodes |-> generate_c_nodes(forest.nodes),
    tree_roots |-> forest.roots,
    leaves_length |-> Len(leaves_to_bytelist(forest.leaves, leaf_bits)),
    leaves |-> leaves_to_bytelist(forest.leaves, leaf_bits),
    tree_leaf_bits |-> leaf_bits ]

\* ------------------------------------------------------- generate_c_inlined
\* c_node, lines 405-410: leaves[leaf_idx] raises IndexError for an index
\* outside the leaf array
RECURSIVE c_node_raised(_, _)
c_node_raised(forest, idx) ==
  IF idx < 0
  THEN (IF c_node_leaf_idx(idx) < Len(forest.leaves) THEN "none" ELSE "IndexError")
  ELSE IF c_node_raised(forest, forest.nodes[idx + 1][3]) # "none"
  THEN "IndexError"
  ELSE c_node_raised(forest, forest.nodes[idx + 1][4])

\* c_node / c_internal / c_leaf, lines 389-410: the body emitted for the
\* node idx, as the decision structure the nested if/else text has
RECURSIVE c_node(_, _)
c_node(forest, idx) ==
  IF idx < 0
  THEN [ ret |-> forest.leaves[c_node_leaf_idx(idx) + 1] ]
  ELSE [ feature |-> forest.nodes[idx + 1][1],
         value |-> forest.nodes[idx + 1][2],
         left |-> c_node(forest, forest.nodes[idx + 1][3]),
         right |-> c_node(forest, forest.nodes[idx + 1][4]) ]

generate_c_inlined_raised(forest) ==
  IF \A k \in 1..Len(forest.roots) : c_node_raised(forest, forest.roots[k]) = "none"
  THEN "none" ELSE "IndexError"

\* tree_func, lines 413-422: the return type written in front of a per-tree
\* function.  The template spells int32_t and has no {return_type} field,
\* so the argument return_type (lines 471-478) is not used.
tree_func_return_type(return_type) == "int32_t"

\* generate_c_inlined: one function per root, then the dispatch function;
\* tree_funcs are the bodies, tree_decl the return types they are declared with
generate_c_inlined(forest, classifier) ==
  [ tree_funcs |-> [ k \in 1..Len(forest.roots) |-> c_node(forest, forest.roots[k]) ],
    tree_decl |-> [ k \in 1..Len(forest.roots) |->
                      tree_func_return_type(IF classifier THEN "int32_t" ELSE "float") ],
    n_trees |-> Len(forest.roots),
    forest_func |-> IF classifier THEN "classifier" ELSE "regressor" ]

\* ------------------------------------------------------------------ Wrapper
None == -1                    \* leaf_bits=None, line 528
max_nodes == 32768            \* 2**15, line 565

Raise(type, what) == [ type |-> type, what |-> what, n_nodes |-> 0, max_nodes |-> 0 ]

\* `not code`, line 645, never true
CodeIsEmpty_Never(code) == FALSE

\* `not code`, line 645
CodeIsEmpty(code) == code = <<>>

\* Wrapper.save, lines 624-664; code is carried as the names of its parts
save(w, name, file, format, inference) ==
  IF name = "None" /\ file = "None"
  THEN [ raised |-> "ValueError", code |-> <<>>, wrote |-> FALSE, written |-> <<>> ]
  ELSE IF format = "c"
  THEN LET forest == w.forest_
           lo == IF "loadable" \in inference
                 THEN generate_c_loadable_raised(forest, w.leaf_bits) ELSE "none"
           il == IF "inline" \in inference /\ lo = "none"
                 THEN generate_c_inlined_raised(forest) ELSE "none"
           code == (IF "loadable" \in inference THEN << "loadable" >> ELSE <<>>)
                   \o (IF "inline" \in inference THEN << "inline" >> ELSE <<>>)
       IN IF lo # "none"
          THEN [ raised |-> lo, code |-> <<>>, wrote |-> FALSE, written |-> <<>> ]
          ELSE IF il # "none"
          THEN [ raised |-> il, code |-> <<>>, wrote |-> FALSE, written |-> <<>> ]
          ELSE IF CodeIsEmpty(code)
          THEN [ raised |-> "ValueError", code |-> <<>>, wrote |-> FALSE, written |-> <<>> ]
          ELSE [ raised |-> "none", code |-> code, wrote |-> file # "None",
                 written |-> IF file # "None" THEN code ELSE <<>> ]
  ELSE \* 'csv' unpacks the three-part forest_ into two names (line 649);
       \* any other format is refused (line 658)
       [ raised |-> "ValueError", code |-> <<>>, wrote |-> FALSE, written |-> <<>> ]

\* Wrapper.__init__, lines 528-607, from the forest its pipeline gave
WrapperInit(in) ==
  LET is_classifier == in.kind \notin { "RandomForestRegressor" }
      leaf_bits == IF in.leaf_bits = None
                   THEN (IF is_classifier THEN 0 ELSE 32) ELSE in.leaf_bits
      w == [ is_classifier |-> is_classifier, leaf_bits |-> leaf_bits, forest_ |-> in.forest ]
      n_nodes == Len(w.forest_.nodes)
  IN IF n_nodes > max_nodes
     THEN [ self |-> w, err |-> [ type |-> "ValueError", what |-> "nodes",
                                  n_nodes |-> n_nodes, max_nodes |-> max_nodes ] ]
     ELSE IF in.classifier = "pymodule"
     THEN [ self |-> w,
            err |-> IF LeafBitsRejected(leaf_bits)
                    THEN Raise("ValueError", "leaf_bits") ELSE NoError ]
     ELSE IF in.classifier \in { "loadable", "inline" }
     THEN LET code == save(w, IF in.classifier = "loadable" THEN "mytree" ELSE "myinlinetree",
                           "None", "c", { "inline", "loadable" })
          IN [ self |-> w,
               err |-> IF code.raised = "none" THEN NoError ELSE Raise(code.raised, "save") ]
     ELSE [ self |-> w, err |-> Raise("ValueError", "classifier") ]

\* ------------------------------------------------------------------ state
VARIABLES
  leaf,                    \* leaf mode Wrapper.__init__ passes: "argmax" | "value"
  pc,                      \* "flatten" | "merged" | "deduped" | "error"
  err,                     \* the failure that ended the run, or "none"
  trees,                   \* the source trees iterated so far by flatten_forest
  flats,                   \* what flatten_tree returned for each of them
  tree_roots, forest_nodes, forest_leaves,      \* locals of flatten_forest
  decision_nodes_offset, leaf_nodes_offset,
  arg,                     \* the forest the last stage was handed
  arg_after,               \* that same forest object once the stage is over
  forest_,                 \* the forest the last stage returned
  n_dedup,                 \* calls of remove_duplicate_leaves made
  s_pc,                    \* serializer run: "start" | "bytes" | "loadable"
  s_leaves, s_bits,        \* its arguments leaves and leaf_bits
  s_out,                   \* what the call gave: [raised, value]
  w_pc,                    \* Wrapper: "new" | "constructed" | "raised" | "saved" | "save_raised"
  w_in,                    \* arguments of Wrapper(...) and the forest its pipeline gives
  self,                    \* attributes of the Wrapper: is_classifier, leaf_bits, forest_, ...
  w_err,                   \* the exception Wrapper(...) raised
  w_call,                  \* arguments of the call of save
  w_ret,                   \* what save gave: [raised, code, wrote, written]
  v_pc,                    \* emitted <name>_predict: "trees" | "loop" | "returned"
  v_code,                  \* the code generate_c_inlined emitted, with its n_classes
  features,                \* the argument of <name>_predict
  votes, _class,           \* its locals
  v_stmt,                  \* the tree statements it has executed
  loop_i,                  \* its loop variable i
  most_voted_class, most_voted_votes,
  v_ret,                   \* the value it returned
  avg,                     \* local of the regressor <name>_predict, in units of 1/2
  f_pc,                    \* a call of one function: "call" | "returned" | "raised"
  f_name,                  \* the function called
  f_args,                  \* its arguments
  f_out                    \* what it returned

pipeVars == << leaf, pc, err, trees, flats, tree_roots, forest_nodes, forest_leaves,
               decision_nodes_offset, leaf_nodes_offset, arg, arg_after, forest_, n_dedup >>
serVars == << s_pc, s_leaves, s_bits, s_out >>
wrapVars == << w_pc, w_in, self, w_err, w_call, w_ret >>
voteVars == << v_pc, v_code, features, votes, _class, v_stmt, loop_i,
               most_voted_class, most_voted_votes, v_ret, avg >>
callVars == << f_pc, f_name, f_args, f_out >>
vars == << pipeVars, serVars, wrapVars, voteVars, callVars >>

\* no emitted function is running
NoEmitted == [ tree_funcs |-> <<>>, forest_func |-> "", n_classes |-> 0 ]
VoteOff ==
  /\ v_pc = "off" /\ v_code = NoEmitted /\ features = <<>> /\ votes = <<>>
  /\ _class = -1 /\ v_stmt = 0 /\ loop_i = 0
  /\ most_voted_class = -1 /\ most_voted_votes = 0 /\ v_ret = -1
  /\ avg = 0

\* no single function is being called
NoArgs == [ none |-> 0 ]
CallOff == f_pc = "off" /\ f_name = "" /\ f_args = NoArgs /\ f_out = Nothing

\* the serializer is not running
SerOff == s_pc = "off" /\ s_leaves = <<>> /\ s_bits = 0 /\ s_out = Nothing

NoSelf == [ is_classifier |-> TRUE, leaf_bits |-> 0, forest_ |-> NoForest ]
NoCall == [ name |-> "None", file |-> "None", format |-> "c", inference |-> {} ]
NoCode == [ raised |-> "none", code |-> <<>>, wrote |-> FALSE, written |-> <<>> ]

\* no Wrapper is being built
WrapOff ==
  /\ w_pc = "off" /\ w_in = [ kind |-> "", leaf_bits |-> 0, classifier |-> "", forest |-> NoForest ]
  /\ self = NoSelf /\ w_err = NoError /\ w_call = NoCall /\ w_ret = NoCode

\* Wrapper.__init__ lines 533-555: entry of flatten_forest, lines 182-186
Init ==
  /\ SerOff
  /\ WrapOff
  /\ VoteOff
  /\ CallOff
  /\ leaf \in { "argmax", "value" }
  /\ pc = "flatten"
  /\ err = "none"
  /\ trees = <<>>
  /\ flats = <<>>
  /\ tree_roots = <<>>
  /\ forest_nodes = <<>>
  /\ forest_leaves = <<>>
  /\ decision_nodes_offset = 0
  /\ leaf_nodes_offset = 0
  /\ arg = NoForest
  /\ arg_after = NoForest
  /\ forest_ = NoForest
  /\ n_dedup = 0

\* one iteration of the loop of flatten_forest, lines 188-212, for an
\* input of at most max_trees trees with max_total decision nodes in all
FlattenForestStepOf(max_trees, max_total) ==
  /\ pc = "flatten"
  /\ Len(trees) < max_trees
  /\ \E d \in { k \in 0..MaxDecision : Len(forest_nodes) + k <= max_total } :
     \E tree \in SourceTrees[leaf][d] :
       LET t == flatten_tree(tree, leaf)
           root == 0 + decision_nodes_offset
           decision_nodes == OffsetNodes(t.decision_nodes, decision_nodes_offset, leaf_nodes_offset)
           nodes2 == forest_nodes \o decision_nodes
           roots2 == Append(tree_roots, root)
           leaves2 == forest_leaves \o t.leaf_nodes
       IN /\ trees' = Append(trees, tree)
          /\ flats' = Append(flats, t)
          /\ IF t.err # "none"
             THEN /\ pc' = "error"
                  /\ err' = "flatten_tree:" \o t.err
                  /\ UNCHANGED << tree_roots, forest_nodes, forest_leaves,
                                  decision_nodes_offset, leaf_nodes_offset >>
             ELSE /\ decision_nodes_offset' = decision_nodes_offset + Len(decision_nodes)
                  /\ leaf_nodes_offset' = leaf_nodes_offset + Len(t.leaf_nodes)
                  /\ tree_roots' = roots2
                  /\ forest_nodes' = nodes2
                  /\ forest_leaves' = leaves2
                  /\ IF NodeReferencesValid(nodes2, leaves2, roots2)
                     THEN UNCHANGED << pc, err >>
                     ELSE pc' = "error" /\ err' = "flatten_forest:references"
  /\ UNCHANGED << leaf, arg, arg_after, forest_, n_dedup, serVars, wrapVars, voteVars, callVars >>

FlattenForestStep == FlattenForestStepOf(MaxTrees, MaxTotal)

\* the loop is over: lines 215-218
FlattenForestReturn ==
  /\ pc = "flatten"
  /\ LET f == [ nodes |-> forest_nodes, roots |-> tree_roots, leaves |-> forest_leaves ]
     IN IF assert_forest_valid(f)
        THEN pc' = "merged" /\ forest_' = f /\ UNCHANGED err
        ELSE pc' = "error" /\ err' = "flatten_forest:references" /\ UNCHANGED forest_
  /\ UNCHANGED << leaf, trees, flats, tree_roots, forest_nodes, forest_leaves,
                  decision_nodes_offset, leaf_nodes_offset, arg, arg_after, n_dedup, serVars, wrapVars, voteVars, callVars >>

\* remove_duplicate_leaves called on the forest the previous stage returned
\* (Wrapper.__init__ line 556, and once more on its own result)
RemoveDuplicateLeaves ==
  /\ pc \in { "merged", "deduped" }
  /\ n_dedup < 2
  /\ LET r == remove_duplicate_leaves(forest_)
     IN /\ arg' = forest_
        /\ arg_after' = r.input
        /\ n_dedup' = n_dedup + 1
        /\ IF r.err = "none"
           THEN pc' = "deduped" /\ forest_' = r.forest /\ UNCHANGED err
           ELSE pc' = "error" /\ err' = "remove_duplicate_leaves:" \o r.err /\ UNCHANGED forest_
  /\ UNCHANGED << leaf, trees, flats, tree_roots, forest_nodes, forest_leaves,
                  decision_nodes_offset, leaf_nodes_offset, serVars, wrapVars, voteVars, callVars >>

Next == FlattenForestStep \/ FlattenForestReturn \/ RemoveDuplicateLeaves

Spec == Init /\ [][Next]_vars

\* ------------------------------------------------------------- serializer
\* the pipeline is not running
PipeOff ==
  /\ leaf = "argmax" /\ pc = "off" /\ err = "none" /\ trees = <<>> /\ flats = <<>>
  /\ tree_roots = <<>> /\ forest_nodes = <<>> /\ forest_leaves = <<>>
  /\ decision_nodes_offset = 0 /\ leaf_nodes_offset = 0
  /\ arg = NoForest /\ arg_after = NoForest /\ forest_ = NoForest /\ n_dedup = 0

\* the leaf lists and widths the serializer is called with
RECURSIVE SeqsUpTo(_, _)
SeqsUpTo(S, n) ==
  IF n = 0 THEN { <<>> }
  ELSE SeqsUpTo(S, n - 1) \cup { Append(q, x) : q \in { r \in SeqsUpTo(S, n - 1) : Len(r) = n - 1 }, x \in S }

LeafBitsChoices == { 0, 1, 4, 8, 16, 32 }

InitSer ==
  /\ PipeOff
  /\ WrapOff
  /\ VoteOff
  /\ CallOff
  /\ s_pc = "start"
  /\ s_leaves \in SeqsUpTo(0..MaxPayload, MaxLeaves)
  /\ s_bits \in LeafBitsChoices
  /\ s_out = Nothing

\* a call leaves_to_bytelist(leaves, leaf_bits)
LeavesToBytelist ==
  /\ s_pc = "start"
  /\ s_pc' = "bytes"
  /\ s_out' = IF leaves_to_bytelist_raised(s_leaves, s_bits) # "none"
              THEN [ raised |-> leaves_to_bytelist_raised(s_leaves, s_bits), value |-> <<>> ]
              ELSE [ raised |-> "none", value |-> leaves_to_bytelist(s_leaves, s_bits) ]
  /\ UNCHANGED << s_leaves, s_bits, pipeVars, wrapVars, voteVars, callVars >>

\* a call generate_c_loadable(forest, ..., leaf_bits) on a forest with these leaves
GenerateCLoadable ==
  /\ s_pc = "start"
  /\ s_pc' = "loadable"
  /\ LET forest == ChainForest(Len(s_leaves), 2, s_leaves)
     IN s_out' = IF generate_c_loadable_raised(forest, s_bits) # "none"
                 THEN [ raised |-> generate_c_loadable_raised(forest, s_bits), value |-> <<>> ]
                 ELSE [ raised |-> "none", value |-> << generate_c_loadable(forest, s_bits) >> ]
  /\ UNCHANGED << s_leaves, s_bits, pipeVars, wrapVars, voteVars, callVars >>

NextSer == LeavesToBytelist \/ GenerateCLoadable

SpecSer == InitSer /\ [][NextSer]_vars

\* ----------------------------------------------------------------- Wrapper
\* The forests flatten_forest and remove_duplicate_leaves hand the Wrapper:
\* n decision nodes in chains of c, and m distinct leaves (at most the
\* leaves there are before de-duplication).
ForestOfShape(n, c, m) == ChainForest(n, c, [ j \in 1..m |-> j - 1 ])

SmallShapes == { << 3, 1, 2 >>, << 3, 1, 4 >>, << 3, 3, 2 >>, << 3, 3, 4 >> }

\* at the capacity limit with few and with all-distinct leaf values, and
\* one node beyond it
CapacityShapes == { << max_nodes, 3, 2 >>, << max_nodes, 3, max_nodes + 1 >>,
                    << max_nodes + 1, 3, 2 >> }

InitWrap ==
  /\ PipeOff
  /\ SerOff
  /\ VoteOff
  /\ CallOff
  /\ w_pc = "new"
  /\ \/ w_in \in [ kind : { "RandomForestClassifier", "RandomForestRegressor" },
                    leaf_bits : { None, 8 },
                    classifier : { "pymodule", "loadable", "inline", "other" },
                    forest : { ForestOfShape(sh[1], sh[2], sh[3]) : sh \in SmallShapes } ]
     \/ w_in \in [ kind : { "RandomForestRegressor" },
                    leaf_bits : { None },
                    classifier : { "loadable", "inline" },
                    forest : { ForestOfShape(sh[1], sh[2], sh[3]) : sh \in CapacityShapes } ]
  /\ self = NoSelf /\ w_err = NoError /\ w_call = NoCall /\ w_ret = NoCode

\* Wrapper(estimator, classifier, leaf_bits=...)
Construct ==
  /\ w_pc = "new"
  /\ LET r == WrapperInit(w_in)
     IN /\ w_err' = r.err
        /\ IF r.err = NoError
           THEN w_pc' = "constructed" /\ self' = r.self
           ELSE w_pc' = "raised" /\ UNCHANGED self
  /\ UNCHANGED << w_in, w_call, w_ret, pipeVars, serVars, voteVars, callVars >>

SaveCalls ==
  [ name : { "model" }, file : { "None" }, format : { "c" },
    inference : { {}, { "jit" }, { "loadable" }, { "inline", "loadable" },
                  { "loadable", "jit" }, { "inline", "jit" } } ]
  \cup [ name : { "None" }, file : { "None", "out.h" }, format : { "c" },
         inference : { { "jit" }, { "inline" } } ]
  \cup [ name : { "model" }, file : { "None" }, format : { "csv", "dot" },
         inference : { { "inline", "loadable" } } ]

\* wrapper.save(name, file, format, inference)
Save ==
  /\ w_pc = "constructed"
  /\ \E call \in SaveCalls :
       LET r == save(self, call.name, call.file, call.format, call.inference)
       IN /\ w_call' = call
          /\ w_ret' = r
          /\ w_pc' = IF r.raised = "none" THEN "saved" ELSE "save_raised"
  /\ UNCHANGED << w_in, self, w_err, pipeVars, serVars, voteVars, callVars >>

NextWrap == Construct \/ Save

SpecWrap == InitWrap /\ [][NextWrap]_vars

\* ------------------------------------- the emitted classifier dispatch
\* The forest flatten_forest and remove_duplicate_leaves give for n_trees
\* classifier trees over n_classes classes, tree t being the chain
\* features[t] < 1 ? class 0 : features[t] < 2 ? class 1 : ... : n_classes-1.
LadderForest(n_trees, n_classes) ==
  [ nodes |-> [ j \in 1..(n_trees * (n_classes - 1)) |->
                  LET t == (j - 1) \div (n_classes - 1)
                      k == (j - 1) % (n_classes - 1)
                  IN << t, k + 1, -k - 1, IF k = n_classes - 2 THEN -n_classes ELSE j >> ],
    roots |-> [ t \in 1..n_trees |-> (t - 1) * (n_classes - 1) ],
    leaves |-> [ c \in 1..n_classes |-> c - 1 ] ]

\* what running an emitted tree function returns (the text of c_internal,
\* lines 391-394, and of c_leaf, line 388)
RECURSIVE RunTree(_, _)
RunTree(body, x) ==
  IF "ret" \in DOMAIN body
  THEN body.ret
  ELSE IF x[body.feature + 1] < body.value
       THEN RunTree(body.left, x)
       ELSE RunTree(body.right, x)

\* the comparison of the emitted loop, line 461
MoreVotes_OrEqual(v, most) == v >= most

\* if (votes[i] > most_voted_votes)
MoreVotes(v, most) == v > most

\* <name>_predict(features, features_length) is entered: votes is zeroed
InitVote ==
  /\ PipeOff
  /\ SerOff
  /\ WrapOff
  /\ CallOff
  /\ v_pc = "running"
  /\ \E n_trees \in 1..MaxVoteTrees, n_classes \in 2..MaxClasses :
       /\ v_code = [ tree_funcs |-> generate_c_inlined(LadderForest(n_trees, n_classes), TRUE).tree_funcs,
                     forest_func |-> generate_c_inlined(LadderForest(n_trees, n_classes), TRUE).forest_func,
                     n_classes |-> n_classes ]
       /\ features \in [ 1..n_trees -> 0..(n_classes - 1) ]
       /\ votes = [ c \in 1..n_classes |-> 0 ]
  /\ _class = -1
  /\ v_stmt = 0
  /\ loop_i = 0
  /\ most_voted_class = -1
  /\ most_voted_votes = 0
  /\ v_ret = -1
  /\ avg = 0

\* _class = <name>_tree_k(features, features_length); votes[_class] += 1;
VoteTree ==
  /\ v_pc = "running"
  /\ v_stmt < Len(v_code.tree_funcs)
  /\ _class' = RunTree(v_code.tree_funcs[v_stmt + 1], features)
  /\ votes' = [ votes EXCEPT ![_class' + 1] = @ + 1 ]
  /\ v_stmt' = v_stmt + 1
  /\ UNCHANGED << v_pc, v_code, features, loop_i, most_voted_class, most_voted_votes, v_ret,
                  avg, pipeVars, serVars, wrapVars, callVars >>

\* one iteration of for (int32_t i=0; i<n_classes; i++)
VoteLoop ==
  /\ v_pc = "running"
  /\ v_stmt = Len(v_code.tree_funcs)
  /\ loop_i < v_code.n_classes
  /\ IF MoreVotes(votes[loop_i + 1], most_voted_votes)
     THEN most_voted_class' = loop_i /\ most_voted_votes' = votes[loop_i + 1]
     ELSE UNCHANGED << most_voted_class, most_voted_votes >>
  /\ loop_i' = loop_i + 1
  /\ UNCHANGED << v_pc, v_code, features, votes, _class, v_stmt, v_ret,
                  avg, pipeVars, serVars, wrapVars, callVars >>

\* return most_voted_class;
VoteReturn ==
  /\ v_pc = "running"
  /\ v_stmt = Len(v_code.tree_funcs)
  /\ ~(loop_i < v_code.n_classes)
  /\ v_ret' = most_voted_class
  /\ v_pc' = "returned"
  /\ UNCHANGED << v_code, features, votes, _class, v_stmt, loop_i, most_voted_class,
                  most_voted_votes, avg, pipeVars, serVars, wrapVars, callVars >>

NextVote == VoteTree \/ VoteLoop \/ VoteReturn

SpecVote == InitVote /\ [][NextVote]_vars

\* ------------------------------------------- Wrapper.__init__, end to end
\* Wrapper(estimator, classifier) for an estimator of small trees: the leaf
\* mode follows the estimator's kind (lines 531-537)
InitBuild ==
  /\ SerOff
  /\ VoteOff
  /\ CallOff
  /\ w_pc = "new"
  /\ w_in \in [ kind : { "RandomForestClassifier", "RandomForestRegressor" },
                 leaf_bits : { None },
                 classifier : { "pymodule", "inline" },
                 forest : { NoForest } ]
  /\ self = NoSelf /\ w_err = NoError /\ w_call = NoCall /\ w_ret = NoCode
  /\ leaf = IF w_in.kind = "RandomForestRegressor" THEN "value" ELSE "argmax"
  /\ pc = "flatten"
  /\ err = "none"
  /\ trees = <<>>
  /\ flats = <<>>
  /\ tree_roots = <<>>
  /\ forest_nodes = <<>>
  /\ forest_leaves = <<>>
  /\ decision_nodes_offset = 0
  /\ leaf_nodes_offset = 0
  /\ arg = NoForest
  /\ arg_after = NoForest
  /\ forest_ = NoForest
  /\ n_dedup = 0

\* line 555, flatten_forest: one tree of the estimator
BuildFlattenStep == FlattenForestStepOf(MaxBuildTrees, MaxBuildTotal)

\* line 555, flatten_forest returns
BuildFlattenReturn == pc = "flatten" /\ FlattenForestReturn

\* line 556, the one call of remove_duplicate_leaves
BuildDedup == pc = "merged" /\ RemoveDuplicateLeaves

\* lines 559-607: the capacity check and the classifier method, which for
\* 'loadable' and 'inline' emits the code with save(name=name)
BuildFinish ==
  /\ pc = "deduped"
  /\ w_pc = "new"
  /\ LET in == [ w_in EXCEPT !.forest = forest_ ]
         r == WrapperInit(in)
         name == IF in.classifier = "loadable" THEN "mytree" ELSE "myinlinetree"
         emits == in.classifier \in { "loadable", "inline" } /\ Len(forest_.nodes) <= max_nodes
     IN /\ w_in' = in
        /\ w_err' = r.err
        /\ IF r.err = NoError
           THEN w_pc' = "constructed" /\ self' = r.self
           ELSE w_pc' = "raised" /\ UNCHANGED self
        /\ IF emits
           THEN /\ w_call' = [ name |-> name, file |-> "None", format |-> "c",
                               inference |-> { "inline", "loadable" } ]
                /\ w_ret' = save(r.self, name, "None", "c", { "inline", "loadable" })
           ELSE UNCHANGED << w_call, w_ret >>
  /\ UNCHANGED << pipeVars, serVars, voteVars, callVars >>

NextBuild == BuildFlattenStep \/ BuildFlattenReturn \/ BuildDedup \/ BuildFinish

SpecBuild == InitBuild /\ [][NextBuild]_vars

\* ------------------------------------- the emitted regressor dispatch
\* C's conversion of the operand of `return` to the declared return type,
\* for a value v in units of 1/2: a float is kept, an int32_t is the value
\* with its fraction dropped (towards zero)
CReturn(declared, v) ==
  IF declared = "float" THEN v
  ELSE IF v >= 0 THEN 2 * (v \div 2) ELSE -(2 * ((-v) \div 2))

\* <name>_predict(features, features_length) of a regressor is entered, for
\* the forest of n_trees ladders over the leaf values 0, 1/2, ..
InitRegress ==
  /\ PipeOff
  /\ SerOff
  /\ WrapOff
  /\ CallOff
  /\ v_pc = "running"
  /\ \E n_trees \in 1..MaxVoteTrees, n_values \in 2..MaxClasses :
       /\ v_code = generate_c_inlined(LadderForest(n_trees, n_values), FALSE)
       /\ features \in [ 1..n_trees -> 0..(n_values - 1) ]
  /\ votes = <<>>
  /\ _class = -1
  /\ v_stmt = 0
  /\ loop_i = 0
  /\ most_voted_class = -1
  /\ most_voted_votes = 0
  /\ v_ret = -1
  /\ avg = 0

\* avg += <name>_tree_k(features, features_length);
RegressTree ==
  /\ v_pc = "running"
  /\ v_code.forest_func = "regressor"
  /\ v_stmt < Len(v_code.tree_funcs)
  /\ avg' = avg + CReturn(v_code.tree_decl[v_stmt + 1],
                          RunTree(v_code.tree_funcs[v_stmt + 1], features))
  /\ v_stmt' = v_stmt + 1
  /\ UNCHANGED << v_pc, v_code, features, votes, _class, loop_i, most_voted_class,
                  most_voted_votes, v_ret, pipeVars, serVars, wrapVars, callVars >>

\* return avg/n_trees;  the quotient is carried as [num, den], num in units of 1/2
RegressReturn ==
  /\ v_pc = "running"
  /\ v_code.forest_func = "regressor"
  /\ v_stmt = Len(v_code.tree_funcs)
  /\ v_ret' = [ num |-> avg, den |-> v_code.n_trees ]
  /\ v_pc' = "returned"
  /\ UNCHANGED << v_code, features, votes, _class, v_stmt, loop_i, most_voted_class,
                  most_voted_votes, avg, pipeVars, serVars, wrapVars, callVars >>

NextRegress == RegressTree \/ RegressReturn

SpecRegress == InitRegress /\ [][NextRegress]_vars

\* --------------------------------------------- calls of single functions
\* what a call gave: the exception it raised, or the value it returned
CallOutcome(raised, value) ==
  [ raised |-> raised, value |-> IF raised = "none" THEN value ELSE <<>> ]

\* a leaf index is about to be encoded by add_leaf or remove_duplicate_leaves
InitEnc ==
  /\ PipeOff /\ SerOff /\ WrapOff /\ VoteOff
  /\ f_pc = "call"
  /\ f_name \in { "add_leaf", "remove_duplicate_leaves" }
  /\ f_args \in [ leaf_idx : 0..MaxLeafIdx ]
  /\ f_out = Nothing

\* lines 62-66 (with the assertion of line 65), lines 229 and 239
EncodeLeaf ==
  /\ f_pc = "call"
  /\ f_name \in { "add_leaf", "remove_duplicate_leaves" }
  /\ LET encoded == IF f_name = "add_leaf" THEN add_leaf_encoded(f_args.leaf_idx)
                    ELSE dedup_encoded(f_args.leaf_idx)
     IN IF f_name = "add_leaf" /\ ~(encoded <= -1)
        THEN f_pc' = "raised" /\ f_out' = CallOutcome("AssertionError", encoded)
        ELSE f_pc' = "encoded" /\ f_out' = CallOutcome("none", encoded)
  /\ UNCHANGED << f_name, f_args, pipeVars, serVars, wrapVars, voteVars >>

\* the reference is decoded by the validator (lines 162-163) or by the
\* inlined emitter (line 407)
DecodeRef ==
  /\ f_pc = "encoded"
  /\ \E decoder \in { "assert_node_references_valid", "c_node" } :
       f_out' = [ raised |-> "none", value |-> f_out.value, decoder |-> decoder,
                  leaf_idx |-> IF decoder = "c_node" THEN c_node_leaf_idx(f_out.value)
                               ELSE validator_leaf_idx(f_out.value) ]
  /\ f_pc' = "decoded"
  /\ UNCHANGED << f_name, f_args, pipeVars, serVars, wrapVars, voteVars >>

NextEnc == EncodeLeaf \/ DecodeRef

SpecEnc == InitEnc /\ [][NextEnc]_vars

\* quantize_probabilities(p, bits) is called
InitQuant ==
  /\ PipeOff /\ SerOff /\ WrapOff /\ VoteOff
  /\ f_pc = "call"
  /\ f_name = "quantize_probabilities"
  /\ f_args \in [ p : { q \in SeqsUpTo(0..ProbScale, MaxProbs) : q # <<>> }, bits : 0..9 ]
  /\ f_out = Nothing

QuantizeProbabilities ==
  /\ f_pc = "call"
  /\ f_name = "quantize_probabilities"
  /\ f_out' = CallOutcome(quantize_probabilities_raised(f_args.p, f_args.bits),
                          quantize_probabilities(f_args.p, f_args.bits))
  /\ f_pc' = IF f_out'.raised = "none" THEN "returned" ELSE "raised"
  /\ UNCHANGED << f_name, f_args, pipeVars, serVars, wrapVars, voteVars >>

NextQuant == QuantizeProbabilities

SpecQuant == InitQuant /\ [][NextQuant]_vars

\* assert_forest_valid(forest) is called on a forest of any references
InitValid ==
  /\ PipeOff /\ SerOff /\ WrapOff /\ VoteOff
  /\ f_pc = "call"
  /\ f_name = "assert_forest_valid"
  /\ \E nodes \in { q \in SeqsUpTo({ << 0, 1, l, r >> : l, r \in (-(MaxValLeaves + 2))..(MaxValNodes - 1) },
                                    MaxValNodes) : q # <<>> } :
       f_args = [ forest |-> [ nodes |-> nodes, roots |-> << 0 >>,
                               leaves |-> [ j \in 1..MaxValLeaves |-> j - 1 ] ] ]
  /\ f_out = Nothing

AssertForestValid ==
  /\ f_pc = "call"
  /\ f_name = "assert_forest_valid"
  /\ f_out' = CallOutcome(IF assert_forest_valid(f_args.forest) THEN "none" ELSE "AssertionError",
                          <<>>)
  /\ f_pc' = IF f_out'.raised = "none" THEN "returned" ELSE "raised"
  /\ UNCHANGED << f_name, f_args, pipeVars, serVars, wrapVars, voteVars >>

NextValid == AssertForestValid

SpecValid == InitValid /\ [][NextValid]_vars

\* generate_c_nodes(flat, name) is called on nodes whose references lie at
\* and around the limits
BoundaryRefs ==
  { child_value_min - 1, child_value_min, -1, 0, child_value_max - 1, child_value_max,
    child_value_max + 1 }

InitNodes ==
  /\ PipeOff /\ SerOff /\ WrapOff /\ VoteOff
  /\ f_pc = "call"
  /\ f_name = "generate_c_nodes"
  /\ f_args \in [ flat : { q \in SeqsUpTo({ << 0, 1, l, r >> : l, r \in BoundaryRefs }, MaxFlat) :
                             q # <<>> } ]
  /\ f_out = Nothing

GenerateCNodes ==
  /\ f_pc = "call"
  /\ f_name = "generate_c_nodes"
  /\ f_out' = CallOutcome(generate_c_nodes_raised(f_args.flat), generate_c_nodes(f_args.flat))
  /\ f_pc' = IF f_out'.raised = "none" THEN "returned" ELSE "raised"
  /\ UNCHANGED << f_name, f_args, pipeVars, serVars, wrapVars, voteVars >>

NextNodes == GenerateCNodes

SpecNodes == InitNodes /\ [][NextNodes]_vars

\* ================================================================ claims
\* decision nodes / leaves of the trees before tree k (k = 1 is the first)
RECURSIVE NodesBefore(_)
NodesBefore(k) == IF k <= 1 THEN 0 ELSE NodesBefore(k - 1) + Len(flats[k - 1].decision_nodes)
RECURSIVE LeavesBefore(_)
LeavesBefore(k) == IF k <= 1 THEN 0 ELSE LeavesBefore(k - 1) + Len(flats[k - 1].leaf_nodes)

AllFlattened == \A k \in 1..Len(flats) : flats[k].err = "none"

RefResolves(r, f) ==
  \/ 0 <= r /\ r < Len(f.nodes)
  \/ r < 0 /\ 0 <= -r - 1 /\ -r - 1 < Len(f.leaves)

NoDangling(f) ==
  \A i \in 1..Len(f.nodes) : RefResolves(f.nodes[i][3], f) /\ RefResolves(f.nodes[i][4], f)

\* C1: every forest that flatten_forest or remove_duplicate_leaves returns
\* has no dangling reference: each left/right reference r of each decision
\* node is an index of the node array, or is negative with -r-1 an index of
\* the leaf array.
C1_NoDanglingReference ==
  pc \in { "merged", "deduped" } => NoDangling(forest_)

\* a de-duplicated forest of two trees that shared leaf payloads
C1_Witness ==
  /\ pc = "deduped"
  /\ Len(forest_.roots) = 2
  /\ Len(forest_.leaves) < Len(arg.leaves)
  /\ \E i \in 1..Len(forest_.nodes) : forest_.nodes[i][4] # arg.nodes[i][4]

\* the reference a local reference r of tree k must become
Shifted(r, k) == IF r >= 0 THEN r + NodesBefore(k) ELSE -((-r - 1) + LeavesBefore(k) + 1)

ExampleA ==
  [ children_left |-> <<1, -1, -1>>, children_right |-> <<2, -1, -1>>,
    feature |-> <<0, -2, -2>>, threshold |-> <<1, -4, -4>>,
    value |-> << <<1, 1>>, <<1, 0>>, <<0, 1>> >>, node_count |-> 3 ]

\* C2: flatten_forest stores tree k's decision nodes and leaves contiguously
\* after those of the earlier trees; with D_k / L_k the decision nodes /
\* leaves of the earlier trees, a local internal reference r becomes r + D_k,
\* a local reference to leaf l becomes -(l + L_k + 1), and roots[k] = D_k.
\* Two copies of Example A give roots [0,1], nodes {0,0.5,-1,-2},
\* {0,0.5,-3,-4} and leaves [0,1,0,1].
C2_MergeOffsets ==
  AllFlattened =>
    /\ Len(tree_roots) = Len(flats)
    /\ Len(forest_nodes) = NodesBefore(Len(flats) + 1)
    /\ Len(forest_leaves) = LeavesBefore(Len(flats) + 1)
    /\ \A k \in 1..Len(flats) :
         /\ tree_roots[k] = NodesBefore(k)
         /\ \A i \in 1..Len(flats[k].decision_nodes) :
              LET n == flats[k].decision_nodes[i]
              IN forest_nodes[NodesBefore(k) + i] = << n[1], n[2], Shifted(n[3], k), Shifted(n[4], k) >>
         /\ \A i \in 1..Len(flats[k].leaf_nodes) :
              forest_leaves[LeavesBefore(k) + i] = flats[k].leaf_nodes[i]
    /\ (leaf = "argmax" /\ trees = << ExampleA, ExampleA >>) =>
         /\ tree_roots = << 0, 1 >>
         /\ forest_nodes = << <<0, 1, -1, -2>>, <<0, 1, -3, -4>> >>
         /\ forest_leaves = << 0, 1, 0, 1 >>

\* a second tree with an internal child reference was appended after a first
C2_Witness ==
  /\ pc = "merged"
  /\ Len(flats) = 2
  /\ \E i \in 1..Len(flats[2].decision_nodes) : flats[2].decision_nodes[i][3] > 0
  /\ \E i \in 1..Len(flats[2].decision_nodes) : flats[2].decision_nodes[i][4] < 0

FirstIndex(s, x) == CHOOSE i \in 1..Len(s) : s[i] = x /\ \A j \in 1..(i-1) : s[j] # x

\* the payload a reference decodes to
Payload(r, f) == f.leaves[(-r - 1) + 1]

RefKept(rin, rout, fin, fout) ==
  IF rin < 0
  THEN rout < 0 /\ -rout - 1 < Len(fout.leaves) /\ Payload(rout, fout) = Payload(rin, fin)
  ELSE rout = rin

\* C3: remove_duplicate_leaves returns a leaf array holding each distinct
\* payload of the input leaf array exactly once, in order of first
\* occurrence; every leaf reference decodes to the same payload as before;
\* internal references and roots are unchanged.
C3_DedupLeaves ==
  pc = "deduped" =>
    /\ Range(forest_.leaves) = Range(arg.leaves)
    /\ \A i, j \in 1..Len(forest_.leaves) :
         i < j => /\ forest_.leaves[i] # forest_.leaves[j]
                  /\ FirstIndex(arg.leaves, forest_.leaves[i]) < FirstIndex(arg.leaves, forest_.leaves[j])
    /\ Len(forest_.nodes) = Len(arg.nodes)
    /\ \A i \in 1..Len(arg.nodes) :
         /\ forest_.nodes[i][1] = arg.nodes[i][1]
         /\ forest_.nodes[i][2] = arg.nodes[i][2]
         /\ RefKept(arg.nodes[i][3], forest_.nodes[i][3], arg, forest_)
         /\ RefKept(arg.nodes[i][4], forest_.nodes[i][4], arg, forest_)
    /\ forest_.roots = arg.roots

\* the first call collapsed duplicates of both payloads and moved a reference
C3_Witness ==
  /\ pc = "deduped"
  /\ n_dedup = 1
  /\ Len(forest_.leaves) = 2
  /\ Len(arg.leaves) >= 4
  /\ \E i \in 1..Len(arg.nodes) : arg.nodes[i][3] < 0 /\ forest_.nodes[i][3] # arg.nodes[i][3]

\* C4: remove_duplicate_leaves is idempotent: called on its own result it
\* returns, and returns that forest unchanged in nodes, roots and leaves.
C4_DedupIdempotent ==
  n_dedup = 2 => (pc = "deduped" /\ forest_ = arg)

\* the second call ran on a forest whose first call had removed leaves
C4_Witness ==
  /\ n_dedup = 2
  /\ pc = "deduped"
  /\ Len(forest_.leaves) < Len(forest_leaves)
  /\ Len(forest_.nodes) >= 2

IsSingleNode(tree) ==
  tree.node_count = 1 /\ tree.children_left[1] = -1 /\ tree.children_right[1] = -1

\* C5: for every source tree, the single-node tree included, flatten_tree
\* returns decision-node and leaf arrays whose lengths sum to the source
\* node count.
C5_FlattenKeepsNodeCount ==
  \A k \in 1..Len(flats) :
    /\ flats[k].err = "none"
    /\ Len(flats[k].decision_nodes) + Len(flats[k].leaf_nodes) = trees[k].node_count

\* C6: a source tree whose root is a leaf is flattened and merged, and
\* contributes one root that is a leaf reference shifted by the leaves of
\* the earlier trees, pointing at the tree's single payload.
C6_DegenerateTreeRoot ==
  \A k \in 1..Len(trees) :
    IsSingleNode(trees[k]) =>
      /\ flats[k].err = "none"
      /\ pc # "error"
      /\ Len(tree_roots) >= k
      /\ tree_roots[k] = -(LeavesBefore(k) + 1)
      /\ Len(forest_leaves) > LeavesBefore(k)
      /\ forest_leaves[LeavesBefore(k) + 1] = LeafPayload(trees[k], 0, leaf)

\* the whole number a little-endian float32 byte group stands for
Float32Value(b) ==
  LET bits == b[1] + 256 * b[2] + 65536 * b[3] + 16777216 * b[4]
      e == (bits \div 8388608) - 127
      frac == bits % 8388608
  IN IF bits = 0 THEN 0 ELSE Pow2(e) + frac \div Pow2(23 - e)

\* C8: leaves_to_bytelist returns the leaves unchanged for width 0, exactly
\* 4 bytes per leaf in leaf order for width 32, and raises for every other
\* width (returning nothing), so that generate_c_loadable gives no text.
C8_LeavesToBytelist ==
  /\ s_pc = "bytes" =>
       /\ s_bits = 0 => s_out = [ raised |-> "none", value |-> s_leaves ]
       /\ s_bits = 32 =>
            /\ s_out.raised = "none"
            /\ Len(s_out.value) = 4 * Len(s_leaves)
            /\ \A i \in 1..Len(s_leaves) :
                 /\ \A k \in 1..4 : s_out.value[4 * (i - 1) + k] \in 0..255
                 /\ Float32Value(SubSeq(s_out.value, 4 * (i - 1) + 1, 4 * i)) = s_leaves[i]
       /\ s_bits \notin { 0, 32 } => s_out = [ raised |-> "ValueError", value |-> <<>> ]
  /\ (s_pc = "loadable" /\ s_bits \notin { 0, 32 }) =>
       s_out = [ raised |-> "ValueError", value |-> <<>> ]

\* width 8 was refused for a forest of three distinct leaves
C8_Witness ==
  /\ s_pc = "loadable"
  /\ s_bits = 8
  /\ Len(s_leaves) = 3
  /\ s_out.raised = "ValueError"

SaneConfig == w_in.leaf_bits = None /\ w_in.classifier \in { "loadable", "inline" }

\* C7: a Wrapper over a forest of exactly 2^15 decision nodes is built and
\* emits its code without error, however many distinct leaves the forest
\* has; one of 2^15+1 decision nodes is refused with an error that reports
\* the node count and the limit.
C7_CapacityBoundary ==
  /\ (SaneConfig /\ Len(w_in.forest.nodes) = 32768 /\ w_pc # "new") => w_pc # "raised"
  /\ (SaneConfig /\ Len(w_in.forest.nodes) = 32768 /\ w_pc \in { "saved", "save_raised" }
        /\ w_call.format = "c" /\ w_call.name # "None"
        /\ w_call.inference \in { { "loadable" }, { "inline" }, { "loadable", "inline" } })
       => w_pc = "saved"
  /\ (Len(w_in.forest.nodes) = 32769 /\ w_pc # "new") =>
       /\ w_pc = "raised"
       /\ w_err = [ type |-> "ValueError", what |-> "nodes", n_nodes |-> 32769, max_nodes |-> 32768 ]

KnownStrategies == { "loadable", "inline" }

\* C9 as claimed: save with format 'c' raises whenever inference is empty
\* or contains a name other than 'loadable' and 'inline', and then returns
\* no code and writes no file.
C9_UnknownStrategyRaises ==
  (w_pc \in { "saved", "save_raised" } /\ w_call.format = "c"
     /\ (w_call.inference = {} \/ w_call.inference \ KnownStrategies # {}))
  => (w_pc = "save_raised" /\ w_ret.code = <<>> /\ ~w_ret.wrote)

\* C9 as amended: save with format 'c' raises whenever inference names
\* neither 'loadable' nor 'inline' (it is empty or holds unknown names
\* only), and then returns no code and writes no file.
C9_NoKnownStrategyRaises ==
  (w_pc \in { "saved", "save_raised" } /\ w_call.format = "c"
     /\ w_call.inference \cap KnownStrategies = {})
  => (w_pc = "save_raised" /\ w_ret.raised = "ValueError"
        /\ w_ret.code = <<>> /\ ~w_ret.wrote /\ w_ret.written = <<>>)

\* save was given a file and an unknown strategy only, and raised
C9_Witness ==
  /\ w_pc = "save_raised"
  /\ w_call.format = "c"
  /\ w_call.inference = { "jit" }
  /\ w_call.file = "out.h"
  /\ w_ret.raised = "ValueError"

\* ---------------------------------------------------------------- C10
\* the class each tree of the emitted code votes for, in tree order
TreeVotes == [ k \in 1..Len(v_code.tree_funcs) |-> RunTree(v_code.tree_funcs[k], features) ]

\* the number of trees voting for class c
Tally(c) == Cardinality({ k \in 1..Len(v_code.tree_funcs) : TreeVotes[k] = c })

\* C10: the emitted dispatch function adds exactly one vote per tree and
\* returns the smallest class index among those with the highest vote
\* count; trees voting 0,1,1 give class 1 and trees voting 0,1 give class 0.
C10_LowestMostVoted ==
  /\ (v_pc # "off" /\ v_stmt = Len(v_code.tree_funcs)) =>
       \A c \in 0..(v_code.n_classes - 1) : votes[c + 1] = Tally(c)
  /\ v_pc = "returned" =>
       /\ v_ret \in 0..(v_code.n_classes - 1)
       /\ \A c \in 0..(v_code.n_classes - 1) : Tally(c) <= Tally(v_ret)
       /\ \A c \in 0..(v_ret - 1) : Tally(c) < Tally(v_ret)
       /\ TreeVotes = << 0, 1, 1 >> => v_ret = 1
       /\ TreeVotes = << 0, 1 >> => v_ret = 0

\* the function returned on a tie in which a later class was voted first
C10_Witness ==
  /\ v_pc = "returned"
  /\ TreeVotes = << 1, 0 >>
  /\ v_ret = 0
  /\ \E c \in 1..(v_code.n_classes - 1) : Tally(c) = Tally(v_ret)

\* ---------------------------------------------------------------- C11
\* the sum of the leaf values the trees reach, in units of 1/2
RECURSIVE ReachedSum(_)
ReachedSum(k) ==
  IF k = 0 THEN 0 ELSE ReachedSum(k - 1) + RunTree(v_code.tree_funcs[k], features)

\* C11: for a regressor every emitted per-tree function is declared with
\* the float return type and yields the payload of the leaf reached, so
\* <name>_predict returns the arithmetic mean of the reached leaf values.
C11_RegressorMean ==
  (v_pc = "returned" /\ v_code.forest_func = "regressor") =>
    /\ \A k \in 1..Len(v_code.tree_funcs) : v_code.tree_decl[k] = "float"
    /\ v_ret = [ num |-> ReachedSum(Len(v_code.tree_funcs)), den |-> Len(v_code.tree_funcs) ]

\* ---------------------------------------------------------------- C12
\* C12: a stage returns a new forest and leaves the one it was handed as it
\* was: after remove_duplicate_leaves(F) the forest F has the node
\* references and the leaf array it had before the call, and so still has
\* no dangling reference and no leaf that nothing refers to.
C12_InputNotMutated ==
  (n_dedup >= 1 /\ pc = "deduped") =>
    /\ arg_after.nodes = arg.nodes
    /\ arg_after.leaves = arg.leaves
    /\ arg_after.roots = arg.roots
    /\ assert_forest_valid(arg_after)

\* ---------------------------------------------------------------- C17
\* the source subtree at node idx and the forest below reference ref make
\* the same tests in the same left/right places and end in the same payloads
RECURSIVE SameStructure(_, _, _, _)
SameStructure(tree, idx, forest, ref) ==
  IF tree.children_left[idx + 1] = -1 /\ tree.children_right[idx + 1] = -1
  THEN /\ ref < 0
       /\ -ref - 1 < Len(forest.leaves)
       /\ forest.leaves[(-ref - 1) + 1] = LeafPayload(tree, idx, leaf)
  ELSE /\ ref >= 0
       /\ ref < Len(forest.nodes)
       /\ forest.nodes[ref + 1][1] = tree.feature[idx + 1]
       /\ forest.nodes[ref + 1][2] = tree.threshold[idx + 1]
       /\ SameStructure(tree, tree.children_left[idx + 1], forest, forest.nodes[ref + 1][3])
       /\ SameStructure(tree, tree.children_right[idx + 1], forest, forest.nodes[ref + 1][4])

\* C17: in the forest that flatten_forest returns, and in the one that
\* remove_duplicate_leaves returns for it, every path of left/right choices
\* from roots[k] meets the (feature, threshold) tests that the same path
\* meets in source tree k and ends at a leaf with the payload of the source
\* leaf at the end of that path.
C17_StructurePreserved ==
  pc \in { "merged", "deduped" } =>
    /\ Len(forest_.roots) = Len(trees)
    /\ \A k \in 1..Len(trees) :
         trees[k].node_count > 1 => SameStructure(trees[k], 0, forest_, forest_.roots[k])

\* two trees went through all three stages, and the last one moved references
C17_Witness ==
  /\ pc = "deduped"
  /\ Len(trees) = 2
  /\ Len(forest_.leaves) < Len(arg.leaves)
  /\ forest_.nodes # arg.nodes

\* ---------------------------------------------------------------- C16
\* C16: the checks come first and a failed one ends the run.  While no
\* check has failed, every tree flattened so far passed flatten_tree's
\* checks and the forest accumulated from them has no dangling reference;
\* when flatten_tree fails on tree k the run stops there, with the trees
\* before k appended and nothing after; the Wrapper reaches its classifier
\* method, and emits text, only after flatten_forest and
\* remove_duplicate_leaves returned and the node count passed the capacity
\* check.
C16_FailFast ==
  /\ pc # "error" =>
       /\ \A k \in 1..Len(flats) :
            /\ flats[k].err = "none"
            /\ Len(flats[k].decision_nodes) + Len(flats[k].leaf_nodes) = trees[k].node_count
            /\ NoDangling([ nodes |-> flats[k].decision_nodes, roots |-> << 0 >>,
                            leaves |-> flats[k].leaf_nodes ])
       /\ Len(tree_roots) = Len(flats)
       /\ NoDangling([ nodes |-> forest_nodes, roots |-> tree_roots, leaves |-> forest_leaves ])
       /\ pc \in { "merged", "deduped" } => NoDangling(forest_)
  /\ pc = "error" =>
       /\ w_pc = "new"
       /\ w_ret = NoCode
       /\ \A k \in 1..(Len(flats) - 1) : flats[k].err = "none"
       /\ (n_dedup = 0 /\ Len(flats) > 0 /\ flats[Len(flats)].err # "none") =>
            /\ Len(tree_roots) = Len(flats) - 1
            /\ Len(forest_nodes) = NodesBefore(Len(flats))
            /\ Len(forest_leaves) = LeavesBefore(Len(flats))
  /\ w_pc # "new" =>
       /\ pc = "deduped" /\ err = "none" /\ n_dedup = 1
       /\ w_in.forest = forest_
       /\ Len(forest_.nodes) <= max_nodes
  /\ w_ret.code # <<>> => (w_pc = "constructed" /\ NoDangling(self.forest_))

\* the second tree failed flatten_tree's check: the first stays appended,
\* nothing was de-duplicated and nothing emitted
C16_Witness ==
  /\ pc = "error"
  /\ Len(flats) = 2
  /\ flats[1].err = "none"
  /\ flats[2].err # "none"
  /\ Len(tree_roots) = 1
  /\ w_pc = "new"

\* ---------------------------------------------------------------- C13
\* C13: a leaf index i >= 0 is encoded as -(i+1) by add_leaf and by
\* remove_duplicate_leaves alike, so index 0 becomes -1 and no index becomes
\* 0 or more; the validator and the inlined emitter both decode a reference
\* r as -r-1, which gives back i; distinct indices have distinct
\* references and every negative reference is the code of its decoding.
C13_EncodingBijection ==
  (f_name \in { "add_leaf", "remove_duplicate_leaves" } /\ f_pc # "call") =>
    /\ f_pc \in { "encoded", "decoded" }
    /\ f_out.value = -(f_args.leaf_idx + 1)
    /\ f_out.value <= -1
    /\ f_args.leaf_idx = 0 => f_out.value = -1
    /\ add_leaf_encoded(f_args.leaf_idx) = dedup_encoded(f_args.leaf_idx)
    /\ \A j \in 0..MaxLeafIdx :
         j # f_args.leaf_idx => (add_leaf_encoded(j) # f_out.value /\ dedup_encoded(j) # f_out.value)
    /\ f_pc = "decoded" =>
         /\ f_out.leaf_idx = f_args.leaf_idx
         /\ validator_leaf_idx(f_out.value) = c_node_leaf_idx(f_out.value)
         /\ add_leaf_encoded(f_out.leaf_idx) = f_out.value

\* leaf 0, encoded by add_leaf as -1, was decoded by the inlined emitter
C13_Witness ==
  /\ f_pc = "decoded"
  /\ f_name = "add_leaf"
  /\ f_args.leaf_idx = 0
  /\ f_out.value = -1
  /\ f_out.decoder = "c_node"
  /\ f_out.leaf_idx = 0

\* ---------------------------------------------------------------- C14
\* C14: for 1 <= N <= 8, quantize_probabilities digitizes against 2^N - 1
\* bin edges that are spaced uniformly over the value range of the
\* probabilities, that is within [0,1]; the code of a value is the number of
\* edges that are <= it, and every code lies in 0..2^N - 1.
C14_QuantizeDigitizes ==
  (f_name = "quantize_probabilities" /\ f_pc # "call"
     /\ f_args.bits >= 1 /\ f_args.bits <= 8) =>
    LET bins == quantize_bins(f_args.bits)
    IN /\ f_pc = "returned"
       /\ Len(bins) = Pow2(f_args.bits) - 1
       /\ \A k \in 1..Len(bins) : 0 <= bins[k] /\ bins[k] <= 1
       /\ \A k \in 1..(Len(bins) - 2) : bins[k + 2] - bins[k + 1] = bins[k + 1] - bins[k]
       /\ Len(f_out.value) = Len(f_args.p)
       /\ \A i \in 1..Len(f_args.p) :
            /\ f_out.value[i] \in 0..(Pow2(f_args.bits) - 1)
            /\ f_out.value[i] = Cardinality({ k \in 1..Len(bins) : bins[k] * ProbScale <= f_args.p[i] })
            /\ \A k \in 1..Len(bins) :
                 f_args.p[i] >= bins[k] * ProbScale => f_out.value[i] >= k

\* ---------------------------------------------------------------- C15
\* a leaf reference in the left or right slot of some node points past the
\* leaf array
DanglingLeafRef(forest) ==
  \E i \in 1..Len(forest.nodes) : \E c \in { 3, 4 } :
    forest.nodes[i][c] < 0 /\ -forest.nodes[i][c] - 1 >= Len(forest.leaves)

\* C15: the validator rejects every forest in which a decision node holds a
\* dangling leaf reference, in its left or in its right slot.
C15_DanglingLeafRejected ==
  (f_name = "assert_forest_valid" /\ f_pc # "call" /\ DanglingLeafRef(f_args.forest)) =>
    f_pc = "raised"

\* ---------------------------------------------------------------- C18
\* C18: generate_c_nodes writes a node table only when every left and right
\* reference fits a signed 16-bit value: each reference of an emitted table
\* lies in -2^15 .. 2^15 - 1, and a reference outside makes the call fail.
C18_ReferencesFitInt16 ==
  (f_name = "generate_c_nodes" /\ f_pc # "call") =>
    LET fits == \A i \in 1..Len(f_args.flat) : \A c \in { 3, 4 } :
                  -32768 <= f_args.flat[i][c] /\ f_args.flat[i][c] <= 32767
    IN /\ f_pc = "returned" =>
            \A i \in 1..Len(f_out.value) : \A c \in { 3, 4 } :
              -32768 <= f_out.value[i][c] /\ f_out.value[i][c] <= 32767
       /\ ~fits => f_pc = "raised"

====
